---- MODULE Spec2Model ----
(***************************************************************************)
(* A model of lychee_log_parser.py: LycheeLogParser.__init__ (error-code   *)
(* resolution and the log-path check) followed by                          *)
(* LycheeLogParser.lychee_log_analyser (classification of the failures of  *)
(* a lychee JSON log, the console report, the suggestion filter and the    *)
(* summary file github_job_summary.md).                                    *)
(*                                                                         *)
(* Strings are TLA+ strings: tokens such as "0..1" are split and converted *)
(* character by character, status texts are searched for substrings, and   *)
(* the lines of the summary are the strings the source appends.            *)
(* A JSON object whose key order matters (fail_map, suggestion_map) is a   *)
(* sequence of records with pairwise distinct file names, a JSON object    *)
(* with optional keys (status) is a record that has the key or not.        *)
(* The debug-level log calls (lines 60-61) are not modelled, nor are the   *)
(* runs that argparse itself rejects or that end in an uncaught exception  *)
(* (a log that is no JSON, or that lacks fail_map or suggestion_map).      *)
(***************************************************************************)
EXTENDS Integers, Sequences, FiniteSets, TLC

VARIABLES
    args,                  \* argparse result: error_codes, ignore_timeouts, ignore_nocode_net_err
    path_exists,           \* os.path.exists(self.log_path)
    log_file,              \* the JSON document stored at self.log_path
    pc,                    \* position in the program
    idx,                   \* index of the loop the program is in
    error_codes,           \* self._error_codes
    broken_files,          \* broken_files, as the ordered items of the dict
    broken_urls,           \* broken_urls
    suggestions_for_files, \* suggestions_for_files, as ordered items
    github_job_summary,    \* github_job_summary
    summary_file,          \* content of github_job_summary.md on disk
    trace,                 \* the effects so far, in order: log calls, help, opens, exit
    exit_status            \* the status passed to exit(), NoExit while running

vars == <<args, path_exists, log_file, pc, idx, error_codes, broken_files,
          broken_urls, suggestions_for_files, github_job_summary,
          summary_file, trace, exit_status>>

(***************************************************************************)
(* Bounds of the inputs.                                                   *)
(***************************************************************************)
MaxArgChars == 5       \* characters of all error-code tokens together
MaxLongToken == 7      \* characters of a single token over "1" and "."
MaxRichEntries == 1    \* failure entries of a log drawn from every status shape
MaxEntries == 2        \* failure entries of a log drawn from PlainEntries
MaxSuggestions == 2    \* suggestion entries of a log
MaxCode == 111         \* largest code of the numerals the resolution is compared with
MaxZeros == 1          \* leading zeros of those numerals

NoExit == -1

BOLD == "\\033[1m"
RED == "\\033[31m"
GREEN == "\\033[32m"
ENDC == "\\033[0m"

SummaryPath == "github_job_summary.md"

(***************************************************************************)
(* Generic helpers.                                                        *)
(***************************************************************************)
SeqsUpTo(S, n) == UNION {[1..k -> S] : k \in 0..n}

Range(s) == {s[i] : i \in 1..Len(s)}

\* Python's `sub in text` on strings.
Contains(sub, text) ==
    \E i \in 1..(Len(text) - Len(sub) + 1) : SubSeq(text, i, i + Len(sub) - 1) = sub

RECURSIVE SumLen(_)
SumLen(ss) == IF ss = <<>> THEN 0 ELSE Len(Head(ss)) + SumLen(Tail(ss))

(***************************************************************************)
(* Error-code tokens (lines 34-52).                                        *)
(***************************************************************************)
Digits == <<"0", "1", "2", "3", "4", "5", "6", "7", "8", "9">>

IsDigit(c) == \E d \in 1..10 : Digits[d] = c

DigitVal(c) == (CHOOSE d \in 1..10 : Digits[d] = c) - 1

\* int(s) succeeds: a non-empty run of decimal digits.  (int() also accepts a
\* sign, surrounding blanks and underscores; the tokens drawn hold none.)
IsInt(s) == Len(s) > 0 /\ \A i \in 1..Len(s) : IsDigit(SubSeq(s, i, i))

RECURSIVE IntOf(_)
IntOf(s) ==
    IF Len(s) = 0 THEN 0
    ELSE 10 * IntOf(SubSeq(s, 1, Len(s) - 1)) + DigitVal(SubSeq(s, Len(s), Len(s)))

\* code.split(".."): leftmost, non-overlapping separators.
RECURSIVE SplitFrom(_, _, _)
SplitFrom(s, start, i) ==
    IF i + 1 > Len(s) THEN <<SubSeq(s, start, Len(s))>>
    ELSE IF SubSeq(s, i, i + 1) = ".."
         THEN <<SubSeq(s, start, i - 1)>> \o SplitFrom(s, i + 2, i + 2)
         ELSE SplitFrom(s, start, i + 1)

Split(s) == SplitFrom(s, 1, 1)

\* RangeRaises with a slip: only the first two parts are looked at, so that
\* "1..2..3" passes as the range 1..2.
RangeRaises_IgnoresExtraParts(code) ==
    LET parts == Split(code)
    IN  Len(parts) < 2 \/ \E k \in 1..2 : ~IsInt(parts[k])

\* `start, end = map(int, code.split(".."))` raises ValueError: a part that
\* int() rejects, or a number of parts other than two.
RangeRaises(code) ==
    LET parts == Split(code)
    IN  Len(parts) # 2 \/ \E k \in 1..Len(parts) : ~IsInt(parts[k])

\* One token raises ValueError (lines 35-49).
TokenRaises(code) ==
    IF Contains("..", code) THEN RangeRaises(code) ELSE ~IsInt(code)

\* NewCodes with a slip: range(start, end), the upper boundary left out.
NewCodes_ExclusiveEnd(code) ==
    IF Contains("..", code)
    THEN LET parts == Split(code)
             start == IntOf(parts[1])
             end == IntOf(parts[2])
         IN  [k \in 1..(IF end > start THEN end - start ELSE 0) |-> start + k - 1]
    ELSE <<IntOf(code)>>

\* new_codes of a token that does not raise: range(start, end + 1) or [int(code)].
NewCodes(code) ==
    IF Contains("..", code)
    THEN LET parts == Split(code)
             start == IntOf(parts[1])
             end == IntOf(parts[2])
         IN  [k \in 1..(IF end >= start THEN end - start + 1 ELSE 0) |-> start + k - 1]
    ELSE <<IntOf(code)>>

\* Lines 50-52: append each new code that is not in the list yet.  The codes
\* of one token are pairwise distinct (a range or a single code), so the loop
\* appends, in order, exactly the new codes the list did not hold before it.
AppendNew(codes, new_codes) ==
    LET present == Range(codes)
        IsNew(new_code) == new_code \notin present
    IN  codes \o SelectSeq(new_codes, IsNew)

(***************************************************************************)
(* Classification of one failure entry (lines 160-196).                    *)
(***************************************************************************)
None == [none |-> TRUE]

\* error["status"]["code"], None on KeyError (lines 162-165).
StatusCode(error) ==
    IF "code" \in DOMAIN error.status THEN [code |-> error.status.code] ELSE None

\* error["status"]["details"], None on KeyError (lines 166-169).
StatusDetails(error) ==
    IF "details" \in DOMAIN error.status THEN [details |-> error.status.details] ELSE None

\* Python truth value of an optional int / optional str.
Truthy(v) ==
    CASE "code" \in DOMAIN v -> v.code # 0
      [] "details" \in DOMAIN v -> v.details # ""
      [] OTHER -> FALSE

\* Line 174: `status_code and status_code in self._error_codes`.
CodeMatches(status_code, codes) ==
    Truthy(status_code) /\ status_code.code \in Range(codes)

\* ClassifyError with a slip: the "Cached" test placed before the code test.
ClassifyError_CachedFirst(error, a, codes) ==
    LET faulty_link == error.url
        status_info == error.status.text
        status_code == StatusCode(error)
        status_details == StatusDetails(error)
    IN  IF status_info = "Timeout" /\ a.ignore_timeouts THEN <<>>
        ELSE IF Contains("Cached", status_info) THEN <<>>
        ELSE IF CodeMatches(status_code, codes)
             THEN <<[url |-> faulty_link, info |-> status_info, details |-> status_code]>>
        ELSE IF Contains("Network error", status_info) /\ a.ignore_nocode_net_err THEN <<>>
        ELSE IF ~Truthy(status_details)
             THEN <<[url |-> faulty_link, info |-> status_info, details |-> None]>>
        ELSE <<[url |-> faulty_link, info |-> status_info, details |-> status_details]>>

\* ClassifyError with a slip: network errors skipped whatever the flag says.
ClassifyError_NetworkErrorAlwaysSkipped(error, a, codes) ==
    LET faulty_link == error.url
        status_info == error.status.text
        status_code == StatusCode(error)
        status_details == StatusDetails(error)
    IN  IF status_info = "Timeout" /\ a.ignore_timeouts THEN <<>>
        ELSE IF CodeMatches(status_code, codes)
             THEN <<[url |-> faulty_link, info |-> status_info, details |-> status_code]>>
        ELSE IF Contains("Cached", status_info) THEN <<>>
        ELSE IF Contains("Network error", status_info) THEN <<>>
        ELSE IF ~Truthy(status_details)
             THEN <<[url |-> faulty_link, info |-> status_info, details |-> None]>>
        ELSE <<[url |-> faulty_link, info |-> status_info, details |-> status_details]>>

\* The if-chain of lines 171-196 for one entry: the empty sequence when the
\* entry is skipped (continue), else the one element appended to broken_links.
ClassifyError(error, a, codes) ==
    LET faulty_link == error.url
        status_info == error.status.text
        status_code == StatusCode(error)
        status_details == StatusDetails(error)
    IN  IF status_info = "Timeout" /\ a.ignore_timeouts THEN <<>>
        ELSE IF CodeMatches(status_code, codes)
             THEN <<[url |-> faulty_link, info |-> status_info, details |-> status_code]>>
        ELSE IF Contains("Cached", status_info) THEN <<>>
        ELSE IF Contains("Network error", status_info) /\ a.ignore_nocode_net_err THEN <<>>
        ELSE IF ~Truthy(status_details)
             THEN <<[url |-> faulty_link, info |-> status_info, details |-> None]>>
        ELSE <<[url |-> faulty_link, info |-> status_info, details |-> status_details]>>

\* The inner loop of lines 158-196 over one file's error_data: broken_links.
RECURSIVE BrokenLinks(_, _, _)
BrokenLinks(error_data, a, codes) ==
    IF error_data = <<>> THEN <<>>
    ELSE ClassifyError(Head(error_data), a, codes) \o BrokenLinks(Tail(error_data), a, codes)

Urls(broken_links) == [k \in 1..Len(broken_links) |-> broken_links[k].url]

(***************************************************************************)
(* Rendering (lines 208-228) and the suggestion filter (lines 235-243).    *)
(***************************************************************************)
\* Python's str() of a detail that is true: the code or the details text.
DetailText(details) ==
    IF "code" \in DOMAIN details THEN ToString(details.code) ELSE details.details

LogCall(level, text) == <<"log", level, text>>

\* LinkSummary with a slip: a horizontal rule after every link, as on the console.
RECURSIVE LinkSummary_WithRules(_)
LinkSummary_WithRules(broken_links) ==
    IF broken_links = <<>> THEN <<>>
    ELSE <<"Broken link: **<" \o Head(broken_links).url \o ">**\n", "\n---\n">>
         \o LinkSummary_WithRules(Tail(broken_links))

\* Lines 217-226 for the links of one file: summary lines.
RECURSIVE LinkSummary(_)
LinkSummary(broken_links) ==
    IF broken_links = <<>> THEN <<>>
    ELSE <<"Broken link: **<" \o Head(broken_links).url \o ">**\n">>
         \o LinkSummary(Tail(broken_links))

\* Lines 217-226 for the links of one file: log calls.
RECURSIVE LinkConsole(_)
LinkConsole(broken_links) ==
    IF broken_links = <<>> THEN <<>>
    ELSE LET error == Head(broken_links)
         IN  << LogCall("error", "---"),
                LogCall("error", RED \o "Broken link: " \o error.url \o ENDC),
                IF Truthy(error.details)
                THEN LogCall("error", RED \o error.info \o ": "
                                      \o DetailText(error.details) \o ENDC)
                ELSE LogCall("error", RED \o error.info \o ENDC) >>
             \o LinkConsole(Tail(broken_links))

\* Lines 212-226: the summary lines of all broken files.
RECURSIVE FilesSummary(_)
FilesSummary(files) ==
    IF files = <<>> THEN <<>>
    ELSE << "\n---\n\n", "## Broken links in \"" \o Head(files).file \o "\"\n\n" >>
         \o LinkSummary(Head(files).broken_links)
         \o FilesSummary(Tail(files))

\* Lines 212-226: the log calls for all broken files.
RECURSIVE FilesConsole(_)
FilesConsole(files) ==
    IF files = <<>> THEN <<>>
    ELSE << LogCall("error", "---"),
            LogCall("error", RED \o BOLD \o "Broken links in \""
                             \o Head(files).file \o "\":" \o ENDC) >>
         \o LinkConsole(Head(files).broken_links)
         \o FilesConsole(Tail(files))

\* Suggestions with a slip: the membership test left out.
RECURSIVE Suggestions_KeepAll(_, _)
Suggestions_KeepAll(links, urls) ==
    IF links = <<>> THEN <<>>
    ELSE << <<Head(links).original, Head(links).suggestion>> >>
         \o Suggestions_KeepAll(Tail(links), urls)

\* Lines 236-241: the suggestions of one file whose original is a broken url.
RECURSIVE Suggestions(_, _)
Suggestions(links, urls) ==
    IF links = <<>> THEN <<>>
    ELSE (IF Head(links).original \notin Range(urls) THEN <<>>
          ELSE << <<Head(links).original, Head(links).suggestion>> >>)
         \o Suggestions(Tail(links), urls)

SuggestionDescription ==
    "Check if broken URL server is expired. "
    \o "If it's no longer available, you can fix "
    \o "broken links using the suggestions below:"

\* Lines 265-270 for one file: summary lines.
RECURSIVE FixSummary(_)
FixSummary(fix_suggestions) ==
    IF fix_suggestions = <<>> THEN <<>>
    ELSE <<Head(fix_suggestions)[1] \o " - " \o Head(fix_suggestions)[2] \o "\n">>
         \o FixSummary(Tail(fix_suggestions))

\* Lines 265-270 for one file: log calls.
RECURSIVE FixConsole(_)
FixConsole(fix_suggestions) ==
    IF fix_suggestions = <<>> THEN <<>>
    ELSE <<LogCall("info", BOLD \o RED \o Head(fix_suggestions)[1] \o " - " \o GREEN
                           \o Head(fix_suggestions)[2] \o ENDC)>>
         \o FixConsole(Tail(fix_suggestions))

\* Lines 261-272: summary lines.
RECURSIVE SuggestionsSummary(_)
SuggestionsSummary(files) ==
    IF files = <<>> THEN <<>>
    ELSE <<"\n## Suggestions for the \"" \o Head(files).file \o "\"\n\n">>
         \o FixSummary(Head(files).suggestions)
         \o <<"\n---\n">>
         \o SuggestionsSummary(Tail(files))

\* Lines 261-272: log calls.
RECURSIVE SuggestionsConsole(_)
SuggestionsConsole(files) ==
    IF files = <<>> THEN <<>>
    ELSE << LogCall("info", "Suggestions for the \"" \o Head(files).file \o "\""),
            LogCall("info", "---") >>
         \o FixConsole(Head(files).suggestions)
         \o <<LogCall("info", "---")>>
         \o SuggestionsConsole(Tail(files))

(***************************************************************************)
(* Inputs: command lines and logs.                                         *)
(***************************************************************************)
Alphabet == {"0", "1", "."}

RECURSIVE StrsOfLen(_, _)
StrsOfLen(chars, k) ==
    IF k = 0 THEN {""} ELSE {c \o t : c \in chars, t \in StrsOfLen(chars, k - 1)}

\* Lists of non-empty tokens holding at most n characters together.
RECURSIVE TokenLists(_)
TokenLists(n) ==
    {<<>>} \cup UNION {{<<t>> \o r : t \in StrsOfLen(Alphabet, k), r \in TokenLists(n - k)} :
                       k \in 1..n}

\* Longer single tokens, long enough for three numbers and two separators.
LongTokens == UNION {StrsOfLen({"1", "."}, k) : k \in 1..MaxLongToken}

\* error_codes has nargs="+": at least one token.
ErrorCodeArgs == (TokenLists(MaxArgChars) \ {<<>>}) \cup {<<t>> : t \in LongTokens}

Files == <<"a.md", "b.md">>

\* The file lists of a map: sublists of Files (a JSON object has distinct keys).
FileLists == {<<>>, <<Files[1]>>, <<Files[2]>>, Files}

\* Ordered maps from files to lists over E holding at most n entries together.
MapsOf(lists, E, n, field) ==
    UNION {{[k \in 1..Len(fs) |-> [file |-> fs[k]] @@ (field :> d[k])] :
               d \in {x \in [1..Len(fs) -> SeqsUpTo(E, n)] : SumLen(x) <= n}} :
           fs \in lists}

FailMaps(lists, E, n) == MapsOf(lists, E, n, "error_data")

SuggestionMaps(lists, E, n) == MapsOf(lists, E, n, "broken_links")

UrlX == "http://x"
UrlY == "http://y"

StatusTexts == {"Timeout", "Cached", "Network error", "Cached: Network error", "Not Found"}

\* Every shape of status: the text, with or without a code, with or without details.
Statuses ==
    UNION {{[text |-> t],
            [text |-> t, details |-> ""],
            [text |-> t, details |-> "410 Gone"]} : t \in StatusTexts}
    \cup UNION {{[text |-> t, code |-> c],
                 [text |-> t, code |-> c, details |-> ""],
                 [text |-> t, code |-> c, details |-> "410 Gone"]} :
                t \in StatusTexts, c \in {0, 404}}

RichEntries == {[url |-> UrlX, status |-> st] : st \in Statuses}

PlainEntries ==
    {[url |-> u, status |-> st] :
        u \in {UrlX, UrlY},
        st \in {[text |-> "Not Found", code |-> 404], [text |-> "Cached"]}}

SuggestionEntries ==
    {[original |-> UrlX, suggestion |-> "http://x/new"],
     [original |-> UrlY, suggestion |-> "http://y/new"]}

PriorSummary == <<"# stale summary of an earlier run\n">>

LogPath == "log.json"

\* The state after argument parsing (line 31) and logger_setup (line 32).
Start(a, exists, doc) ==
    /\ args = a
    /\ path_exists = exists
    /\ log_file = doc
    /\ pc = "init"
    /\ idx = 1
    /\ error_codes = <<>>
    /\ broken_files = <<>>
    /\ broken_urls = <<>>
    /\ suggestions_for_files = <<>>
    /\ github_job_summary = <<>>
    /\ summary_file = PriorSummary
    /\ trace = <<>>
    /\ exit_status = NoExit

Args(tokens, t, n) ==
    [error_codes |-> tokens, ignore_timeouts |-> t, ignore_nocode_net_err |-> n]

\* Four logs, one for each way lychee_log_analyser can end after classifying.
SampleLogs ==
    LET broken == [url |-> UrlX, status |-> [text |-> "Not Found", details |-> "410 Gone"]]
        cached == [url |-> UrlY, status |-> [text |-> "Cached"]]
        fails(e) == <<[file |-> Files[1], error_data |-> <<e>>]>>
        sugg(u) == <<[file |-> Files[1],
                      broken_links |-> <<[original |-> u, suggestion |-> "http://x/new"]>>]>>
    IN  {[fail_map |-> fails(cached), suggestion_map |-> sugg(UrlX)],
         [fail_map |-> fails(broken), suggestion_map |-> <<>>],
         [fail_map |-> fails(broken), suggestion_map |-> sugg(UrlY)],
         [fail_map |-> fails(broken), suggestion_map |-> sugg(UrlX)]}

\* Every command line of error-code tokens, the log missing or one of SampleLogs.
InitArgs ==
    \E tokens \in ErrorCodeArgs, exists \in BOOLEAN, doc \in SampleLogs :
        Start(Args(tokens, FALSE, FALSE), exists, doc)

\* Two error-code sets, every flag combination, logs of every status shape.
InitClassify ==
    \E tokens \in {<<"404">>, <<"0">>}, t \in BOOLEAN, n \in BOOLEAN,
       fm \in FailMaps({<<>>, <<Files[1]>>}, RichEntries, MaxRichEntries),
       sm \in {<<>>} \cup {<<[file |-> Files[1],
                              broken_links |-> <<[original |-> u, suggestion |-> "http://x/new"]>>]>> :
                              u \in {UrlX, UrlY}} :
        Start(Args(tokens, t, n), TRUE, [fail_map |-> fm, suggestion_map |-> sm])

\* One command line, logs of several files, entries and suggestions.
InitReport ==
    \E fm \in FailMaps(FileLists, PlainEntries, MaxEntries),
       sm \in SuggestionMaps(FileLists, SuggestionEntries, MaxSuggestions) :
        Start(Args(<<"404">>, FALSE, FALSE), TRUE, [fail_map |-> fm, suggestion_map |-> sm])

(***************************************************************************)
(* LycheeLogParser.__init__                                                *)
(***************************************************************************)
Exit(status, effects) ==
    /\ trace' = trace \o effects \o << <<"exit", status>> >>
    /\ exit_status' = status
    /\ pc' = "done"

\* One iteration of the loop of lines 34-52.
ParseCode ==
    /\ pc = "init"
    /\ idx <= Len(args.error_codes)
    /\ LET code == args.error_codes[idx]
       IN  IF TokenRaises(code)
           THEN /\ Exit(2, <<LogCall("error", "Invalid input parameters!"), <<"print_help">> >>)
                /\ UNCHANGED <<idx, error_codes>>
           ELSE /\ error_codes' = AppendNew(error_codes, NewCodes(code))
                /\ idx' = idx + 1
                /\ UNCHANGED <<pc, trace, exit_status>>
    /\ UNCHANGED <<args, path_exists, log_file, broken_files, broken_urls,
                   suggestions_for_files, github_job_summary, summary_file>>

\* Lines 54-58.
CheckPath ==
    /\ pc = "init"
    /\ idx > Len(args.error_codes)
    /\ IF ~path_exists
       THEN Exit(2, << <<"exists", LogPath>>,
                       LogCall("error", "Check the path of the lychee log file!"),
                       <<"print_help">> >>)
       ELSE /\ pc' = "load"
            /\ trace' = Append(trace, <<"exists", LogPath>>)
            /\ UNCHANGED exit_status
    /\ UNCHANGED <<args, path_exists, log_file, idx, error_codes, broken_files, broken_urls,
                   suggestions_for_files, github_job_summary, summary_file>>

(***************************************************************************)
(* LycheeLogParser.lychee_log_analyser                                     *)
(***************************************************************************)
json_log == log_file

\* `with open("github_job_summary.md", "w") as summary: summary.writelines(...)`
\* followed by exit(status).
WriteSummaryAndExit(status, effects, lines) ==
    /\ github_job_summary' = lines
    /\ summary_file' = lines
    /\ Exit(status, effects \o << <<"open", SummaryPath, "w">> >>)

\* Lines 149-154: load the log; leave at once when fail_map is empty.
LoadLog ==
    /\ pc = "load"
    /\ IF json_log.fail_map = <<>>
       THEN /\ Exit(0, << <<"open", LogPath, "r">>,
                          LogCall("info", "No links broken. Exiting...") >>)
            /\ UNCHANGED idx
       ELSE /\ pc' = "classify"
            /\ idx' = 1
            /\ trace' = Append(trace, <<"open", LogPath, "r">>)
            /\ UNCHANGED exit_status
    /\ UNCHANGED <<args, path_exists, log_file, error_codes, broken_files, broken_urls,
                   suggestions_for_files, github_job_summary, summary_file>>

\* One iteration of the loop of lines 156-199: one file of fail_map.
ClassifyFile ==
    /\ pc = "classify"
    /\ idx <= Len(json_log.fail_map)
    /\ LET file == json_log.fail_map[idx].file
           broken_links == BrokenLinks(json_log.fail_map[idx].error_data, args, error_codes)
       IN  /\ broken_urls' = broken_urls \o Urls(broken_links)
           /\ broken_files' =
                 IF broken_links # <<>>
                 THEN Append(broken_files, [file |-> file, broken_links |-> broken_links])
                 ELSE broken_files
    /\ idx' = idx + 1
    /\ UNCHANGED <<args, path_exists, log_file, pc, error_codes, suggestions_for_files,
                   github_job_summary, summary_file, trace, exit_status>>

\* Lines 201-206: nothing is broken.
NoBrokenFiles ==
    /\ pc = "classify"
    /\ idx > Len(json_log.fail_map)
    /\ broken_files = <<>>
    /\ WriteSummaryAndExit(0,
          <<LogCall("info", GREEN \o BOLD \o "No links broken. Exiting..." \o ENDC)>>,
          Append(github_job_summary, "# :heavy_check_mark: No links broken."))
    /\ UNCHANGED <<args, path_exists, log_file, idx, error_codes, broken_files, broken_urls,
                   suggestions_for_files>>

\* Lines 208-228: the report of the broken links, on the console and in the summary.
RenderBroken ==
    /\ pc = "classify"
    /\ idx > Len(json_log.fail_map)
    /\ broken_files # <<>>
    /\ github_job_summary' =
          github_job_summary \o <<"# :x:  Broken links found!\n">>
          \o FilesSummary(broken_files) \o <<"\n---\n">>
    /\ trace' = trace \o <<LogCall("error", RED \o "Broken links found!" \o ENDC)>>
                \o FilesConsole(broken_files) \o <<LogCall("error", "---")>>
    /\ pc' = "suggest"
    /\ idx' = 1
    /\ UNCHANGED <<args, path_exists, log_file, error_codes, broken_files, broken_urls,
                   suggestions_for_files, summary_file, exit_status>>

\* Lines 230-233: the log holds no suggestions.
NoSuggestionMap ==
    /\ pc = "suggest"
    /\ json_log.suggestion_map = <<>>
    /\ WriteSummaryAndExit(1, <<>>, github_job_summary)
    /\ UNCHANGED <<args, path_exists, log_file, idx, error_codes, broken_files, broken_urls,
                   suggestions_for_files>>

\* One iteration of the loop of lines 235-243: one file of suggestion_map.
FilterFile ==
    /\ pc = "suggest"
    /\ idx <= Len(json_log.suggestion_map)
    /\ LET file == json_log.suggestion_map[idx].file
           suggestions == Suggestions(json_log.suggestion_map[idx].broken_links, broken_urls)
       IN  suggestions_for_files' =
              IF suggestions # <<>>
              THEN Append(suggestions_for_files, [file |-> file, suggestions |-> suggestions])
              ELSE suggestions_for_files
    /\ idx' = idx + 1
    /\ UNCHANGED <<args, path_exists, log_file, pc, error_codes, broken_files, broken_urls,
                   github_job_summary, summary_file, trace, exit_status>>

\* NoSuggestions with a slip: the run ends with status 0 when no suggestion survives.
NoSuggestions_ExitZero ==
    /\ pc = "suggest"
    /\ json_log.suggestion_map # <<>>
    /\ idx > Len(json_log.suggestion_map)
    /\ suggestions_for_files = <<>>
    /\ WriteSummaryAndExit(0, <<>>, github_job_summary)
    /\ UNCHANGED <<args, path_exists, log_file, idx, error_codes, broken_files, broken_urls,
                   suggestions_for_files>>

\* Lines 245-248: no suggestion is about a broken url.
NoSuggestions ==
    /\ pc = "suggest"
    /\ json_log.suggestion_map # <<>>
    /\ idx > Len(json_log.suggestion_map)
    /\ suggestions_for_files = <<>>
    /\ WriteSummaryAndExit(1, <<>>, github_job_summary)
    /\ UNCHANGED <<args, path_exists, log_file, idx, error_codes, broken_files, broken_urls,
                   suggestions_for_files>>

\* Lines 250-276: the suggestions section, then the summary is written.
RenderSuggestions ==
    /\ pc = "suggest"
    /\ json_log.suggestion_map # <<>>
    /\ idx > Len(json_log.suggestion_map)
    /\ suggestions_for_files # <<>>
    /\ WriteSummaryAndExit(1,
          <<LogCall("info", SuggestionDescription), LogCall("info", "---")>>
          \o SuggestionsConsole(suggestions_for_files),
          github_job_summary
          \o <<"\n## :bulb: Fix Suggestions\n\n", SuggestionDescription \o "\n", "\n---\n">>
          \o SuggestionsSummary(suggestions_for_files))
    /\ UNCHANGED <<args, path_exists, log_file, idx, error_codes, broken_files, broken_urls,
                   suggestions_for_files>>

Next ==
    \/ ParseCode
    \/ CheckPath
    \/ LoadLog
    \/ ClassifyFile
    \/ NoBrokenFiles
    \/ RenderBroken
    \/ NoSuggestionMap
    \/ FilterFile
    \/ NoSuggestions
    \/ RenderSuggestions

\* Command lines of every token shape.
SpecArgs == InitArgs /\ [][Next]_vars

\* Logs of every status shape, under every flag combination.
SpecClassify == InitClassify /\ [][Next]_vars

\* Logs of several files, entries and suggestions.
SpecReport == InitReport /\ [][Next]_vars

(***************************************************************************)
(* What the claims speak of.                                               *)
(***************************************************************************)
\* The number of files of fail_map whose entries have been classified.
FilesDone ==
    IF pc = "classify" THEN idx - 1
    ELSE IF pc \in {"suggest", "done"} /\ exit_status # 2 THEN Len(json_log.fail_map)
    ELSE 0

\* The BrokenFileReport list of a file, empty when the file is no key.
ReportOf(file) ==
    LET ks == {k \in 1..Len(broken_files) : broken_files[k].file = file}
    IN  IF ks = {} THEN <<>> ELSE broken_files[CHOOSE k \in ks : TRUE].broken_links

ReportKeys == {broken_files[k].file : k \in 1..Len(broken_files)}

ErrorCodeSet == Range(error_codes)

\* status.code is present and a member of the ErrorCodeSet.
CodeInSet(error) == "code" \in DOMAIN error.status /\ error.status.code \in ErrorCodeSet

\* The rule of the precedence table of the specification that fires for an entry.
RuleOf(error) ==
    LET st == error.status
    IN  IF st.text = "Timeout" /\ args.ignore_timeouts THEN 1
        ELSE IF CodeInSet(error) THEN 2
        ELSE IF Contains("Cached", st.text) THEN 3
        ELSE IF Contains("Network error", st.text) /\ args.ignore_nocode_net_err THEN 4
        ELSE IF "details" \notin DOMAIN st \/ st.details = "" THEN 5
        ELSE 6

\* The ClassifiedFailure the table prescribes for an entry of rule 2, 5 or 6.
TableFailure(error) ==
    [url |-> error.url,
     info |-> error.status.text,
     details |-> CASE RuleOf(error) = 2 -> [code |-> error.status.code]
                   [] RuleOf(error) = 5 -> None
                   [] OTHER -> [details |-> error.status.details]]

\* The list the table prescribes for the entries of one file, in input order.
RECURSIVE TableLinks(_)
TableLinks(error_data) ==
    IF error_data = <<>> THEN <<>>
    ELSE (IF RuleOf(Head(error_data)) \in {2, 5, 6}
          THEN <<TableFailure(Head(error_data))>> ELSE <<>>)
         \o TableLinks(Tail(error_data))

\* The entries of the classified files, each with its file.
ClassifiedEntries ==
    UNION {{[file |-> json_log.fail_map[k].file, error |-> json_log.fail_map[k].error_data[i]] :
               i \in 1..Len(json_log.fail_map[k].error_data)} : k \in 1..FilesDone}

\* The number of entries of the log that carry this url.
RECURSIVE UrlCount(_, _)
UrlCount(fail_map, url) ==
    IF fail_map = <<>> THEN 0
    ELSE Len(SelectSeq(Head(fail_map).error_data, LAMBDA e : e.url = url))
         + UrlCount(Tail(fail_map), url)

\* The entry's url is reported: in its file's list and in the broken-url collection.
Reported(ce) ==
    /\ ce.error.url \in Range(Urls(ReportOf(ce.file)))
    /\ ce.error.url \in Range(broken_urls)

\* The entry's url is discarded: in neither.
Discarded(ce) ==
    /\ ce.error.url \notin Range(Urls(ReportOf(ce.file)))
    /\ ce.error.url \notin Range(broken_urls)

(***************************************************************************)
(* C1: for every classified file, under every flag combination and        *)
(* ErrorCodeSet, the file's BrokenFileReport list holds exactly the        *)
(* entries the six-rule table classifies as broken, in input order, each   *)
(* with the detail its rule prescribes, and a file is a key of the report  *)
(* iff the table classifies one of its entries as broken.                  *)
(***************************************************************************)
C1_ReportMatchesTable ==
    /\ \A k \in 1..FilesDone :
          ReportOf(json_log.fail_map[k].file) = TableLinks(json_log.fail_map[k].error_data)
    /\ ReportKeys = {json_log.fail_map[k].file :
                        k \in {j \in 1..FilesDone :
                                  TableLinks(json_log.fail_map[j].error_data) # <<>>}}

(***************************************************************************)
(* C2, as claimed: an entry whose status.code is present and in the        *)
(* ErrorCodeSet is classified broken (reported in its file's list and in   *)
(* the broken-url collection), whatever its text, its code value and the   *)
(* two flags.                                                              *)
(***************************************************************************)
C2_CodeInSetAlwaysBroken ==
    \A ce \in ClassifiedEntries : CodeInSet(ce.error) => Reported(ce)

(***************************************************************************)
(* C3, as claimed: an entry whose text contains "Network error" is         *)
(* discarded iff the                                                       *)
(* ignore-codeless-network-errors flag is set and its code did not match   *)
(* the ErrorCodeSet; with the flag unset it is never discarded.  (Stated   *)
(* for an entry that is the only one of the log with its url, so that the  *)
(* url's absence is the entry's discarding.)                               *)
(***************************************************************************)
C3_NetworkErrorDiscardedIffFlag ==
    \A ce \in ClassifiedEntries :
        (/\ Contains("Network error", ce.error.status.text)
         /\ UrlCount(json_log.fail_map, ce.error.url) = 1)
        => IF args.ignore_nocode_net_err /\ ~CodeInSet(ce.error)
           THEN Discarded(ce)
           ELSE Reported(ce)

\* Line 174 fires for the entry: its code is present, in the set and not 0.
RuleTwoFires(error) == CodeInSet(error) /\ error.status.code # 0

(***************************************************************************)
(* C2, amended: an entry whose status.code is present, non-zero and in the *)
(* ErrorCodeSet is classified broken for every text (texts containing      *)
(* "Cached" included) and every setting of the network-error flag, unless  *)
(* its text equals "Timeout" while ignore-timeouts is set.                 *)
(***************************************************************************)
C2_CodeInSetBrokenUnlessTimeout ==
    \A ce \in ClassifiedEntries :
        (/\ RuleTwoFires(ce.error)
         /\ ~(ce.error.status.text = "Timeout" /\ args.ignore_timeouts))
        => Reported(ce)

\* A classified entry with a "Cached" text and a code of the set, reported.
C2_Witness ==
    \E ce \in ClassifiedEntries :
        /\ RuleTwoFires(ce.error)
        /\ Contains("Cached", ce.error.status.text)
        /\ args.ignore_nocode_net_err
        /\ Reported(ce)

(***************************************************************************)
(* C3, amended: an entry whose text contains "Network error" is discarded  *)
(* iff line 174 did not fire for it and either the                         *)
(* ignore-codeless-network-errors flag is set or its text also contains    *)
(* "Cached"; otherwise it is reported.                                     *)
(***************************************************************************)
C3_NetworkErrorDiscardedIffFlagOrCached ==
    \A ce \in ClassifiedEntries :
        (/\ Contains("Network error", ce.error.status.text)
         /\ UrlCount(json_log.fail_map, ce.error.url) = 1)
        => IF /\ ~RuleTwoFires(ce.error)
              /\ \/ args.ignore_nocode_net_err
                 \/ Contains("Cached", ce.error.status.text)
           THEN Discarded(ce)
           ELSE Reported(ce)

\* A classified "Network error" entry without "Cached", discarded under the flag.
C3_Witness ==
    \E ce \in ClassifiedEntries :
        /\ Contains("Network error", ce.error.status.text)
        /\ ~Contains("Cached", ce.error.status.text)
        /\ UrlCount(json_log.fail_map, ce.error.url) = 1
        /\ args.ignore_nocode_net_err
        /\ Discarded(ce)

(***************************************************************************)
(* The summary file and the end of a run.                                  *)
(***************************************************************************)
SuccessBanner == "# :heavy_check_mark: No links broken."

SummaryOpen == <<"open", SummaryPath, "w">>

\* How often the run has opened the summary file for writing.
SummaryWrites == Len(SelectSeq(trace, LAMBDA e : e = SummaryOpen))

\* The run left lychee_log_analyser through one of its exits.
AnalyserDone == pc = "done" /\ exit_status # 2

(***************************************************************************)
(* C4: a run whose log has an empty fail_map ends with exit status 0 and   *)
(* with the summary file written, holding only the success banner.         *)
(***************************************************************************)
C4_EmptyFailMapWritesBanner ==
    (AnalyserDone /\ json_log.fail_map = <<>>)
    => /\ exit_status = 0
       /\ SummaryWrites = 1
       /\ summary_file = <<SuccessBanner>>

\* ClassifyError as the program applies it: an entry of the log is broken.
AnyBroken ==
    \E k \in 1..Len(json_log.fail_map) :
        \E i \in 1..Len(json_log.fail_map[k].error_data) :
            ClassifyError(json_log.fail_map[k].error_data[i], args, error_codes) # <<>>

(***************************************************************************)
(* C5: a run with valid tokens and an existing log ends with exit status 1 *)
(* iff at least one entry is classified broken and with 0 otherwise,       *)
(* whatever suggestion_map holds and whether a suggestion survives.        *)
(***************************************************************************)
C5_ExitStatusIffBroken ==
    AnalyserDone =>
        /\ exit_status \in {0, 1}
        /\ exit_status = 1 <=> AnyBroken

\* A run ended with broken links although no suggestion survived the filter.
C5_Witness ==
    /\ AnalyserDone
    /\ exit_status = 1
    /\ json_log.suggestion_map # <<>>
    /\ suggestions_for_files = <<>>

(***************************************************************************)
(* C6: on every path out of lychee_log_analyser the summary file is        *)
(* written exactly once, the write replaces the prior content with the     *)
(* summary built, and it is the last effect before the exit.               *)
(***************************************************************************)
C6_SummaryWrittenOnceLast ==
    AnalyserDone =>
        /\ SummaryWrites = 1
        /\ summary_file = github_job_summary
        /\ summary_file # PriorSummary
        /\ Len(trace) >= 2
        /\ trace[Len(trace) - 1] = SummaryOpen
        /\ trace[Len(trace)] = <<"exit", exit_status>>

(***************************************************************************)
(* The suggestion filter.                                                  *)
(***************************************************************************)
\* The urls of all ClassifiedFailure entries of the BrokenFileReport.
ReportUrls ==
    UNION {Range(Urls(broken_files[k].broken_links)) : k \in 1..Len(broken_files)}

\* The number of files of suggestion_map that have been filtered.
SuggestionsDone ==
    IF pc = "suggest" THEN idx - 1
    ELSE IF AnalyserDone /\ exit_status = 1 /\ broken_files # <<>>
         THEN Len(json_log.suggestion_map)
    ELSE 0

\* The suggestions of the k-th file whose original is a reported url, as pairs.
Survivors(k) ==
    LET kept == SelectSeq(json_log.suggestion_map[k].broken_links,
                          LAMBDA sg : sg.original \in ReportUrls)
    IN  [i \in 1..Len(kept) |-> <<kept[i].original, kept[i].suggestion>>]

\* The SuggestionReport of the first n files: the files with a survivor, in order.
RECURSIVE ExpectedSuggestions(_)
ExpectedSuggestions(n) ==
    IF n = 0 THEN <<>>
    ELSE ExpectedSuggestions(n - 1)
         \o (IF Survivors(n) # <<>>
             THEN <<[file |-> json_log.suggestion_map[n].file, suggestions |-> Survivors(n)]>>
             ELSE <<>>)

(***************************************************************************)
(* C9: the broken-url collection equals the union of the urls of the       *)
(* ClassifiedFailure entries of the BrokenFileReport, and the              *)
(* SuggestionReport holds, per filtered file and in input order, exactly   *)
(* the suggestions whose original is in that collection; a file without a  *)
(* surviving suggestion is no key of it.                                   *)
(***************************************************************************)
C9_SuggestionsRestrictedToBroken ==
    /\ Range(broken_urls) = ReportUrls
    /\ suggestions_for_files = ExpectedSuggestions(SuggestionsDone)
    /\ \A k \in 1..Len(suggestions_for_files) :
          /\ suggestions_for_files[k].suggestions # <<>>
          /\ \A i \in 1..Len(suggestions_for_files[k].suggestions) :
                suggestions_for_files[k].suggestions[i][1] \in Range(broken_urls)

\* Two files of suggestions filtered: one kept, one without a survivor.
C9_Witness ==
    /\ pc = "suggest"
    /\ idx > Len(json_log.suggestion_map)
    /\ Len(json_log.suggestion_map) = 2
    /\ Len(suggestions_for_files) = 1
    /\ \E k \in 1..2 : \E i \in 1..Len(json_log.suggestion_map[k].broken_links) :
          json_log.suggestion_map[k].broken_links[i].original \notin Range(broken_urls)

(***************************************************************************)
(* The summary of the failure case.                                        *)
(***************************************************************************)
\* The report of the broken links has been rendered (lines 208-228).
Rendered == pc = "suggest" \/ (AnalyserDone /\ exit_status = 1)

RECURSIVE LinkLinesBefore(_)
\* The summary lines of the files before the j-th: two lines and one per link.
LinkLinesBefore(j) ==
    IF j = 1 THEN 0
    ELSE LinkLinesBefore(j - 1) + 2 + Len(broken_files[j - 1].broken_links)

\* The index of the rule that opens the j-th file's section.
SectionStart(j) == 2 + LinkLinesBefore(j)

\* What the console shows for a ClassifiedFailure, after its "Broken link" line.
ConsoleStatus(link) ==
    IF Truthy(link.details)
    THEN LogCall("error", RED \o link.info \o ": " \o DetailText(link.details) \o ENDC)
    ELSE LogCall("error", RED \o link.info \o ENDC)

(***************************************************************************)
(* C10, as claimed: in the failure case each ClassifiedFailure has a       *)
(* "Broken link" line in the summary that carries its url, its status text *)
(* and its detail or code when present, and consecutive broken-link lines  *)
(* are separated by a horizontal rule.                                     *)
(***************************************************************************)
C10_SummaryLinesCarryStatus ==
    Rendered =>
        /\ \A j \in 1..Len(broken_files) : \A k \in 1..Len(broken_files[j].broken_links) :
              LET link == broken_files[j].broken_links[k]
              IN  \E i \in 1..Len(github_job_summary) :
                     /\ Contains("Broken link: ", github_job_summary[i])
                     /\ Contains(link.url, github_job_summary[i])
                     /\ Contains(link.info, github_job_summary[i])
                     /\ Truthy(link.details)
                        => Contains(DetailText(link.details), github_job_summary[i])
        /\ \A i \in 1..(Len(github_job_summary) - 1) :
              ~(/\ Contains("Broken link: ", github_job_summary[i])
                /\ Contains("Broken link: ", github_job_summary[i + 1]))

(***************************************************************************)
(* C10, amended: in the failure case the summary is the banner, then for   *)
(* each file of the BrokenFileReport in order a horizontal rule, the       *)
(* heading `## Broken links in "<file>"` and one line                      *)
(* `Broken link: **<url>**` per ClassifiedFailure in order, then a closing *)
(* rule; the lines of one file follow each other without a rule, and the   *)
(* status text and the detail or code appear on the console only.          *)
(***************************************************************************)
C10_SummaryListsUrlsOnly ==
    Rendered =>
        /\ Len(github_job_summary) >= SectionStart(Len(broken_files) + 1)
        /\ github_job_summary[1] = "# :x:  Broken links found!\n"
        /\ github_job_summary[SectionStart(Len(broken_files) + 1)] = "\n---\n"
        /\ \A j \in 1..Len(broken_files) :
              /\ github_job_summary[SectionStart(j)] = "\n---\n\n"
              /\ github_job_summary[SectionStart(j) + 1] =
                    "## Broken links in \"" \o broken_files[j].file \o "\"\n\n"
              /\ \A k \in 1..Len(broken_files[j].broken_links) :
                    /\ github_job_summary[SectionStart(j) + 1 + k] =
                          "Broken link: **<" \o broken_files[j].broken_links[k].url \o ">**\n"
                    /\ ConsoleStatus(broken_files[j].broken_links[k]) \in Range(trace)

\* A rendered report of one file with two broken links.
C10_Witness ==
    /\ pc = "suggest"
    /\ \E j \in 1..Len(broken_files) : Len(broken_files[j].broken_links) >= 2

(***************************************************************************)
(* Error-code resolution, stated from the integers: a numeral is the       *)
(* decimal text of an integer, possibly after leading zeros.               *)
(***************************************************************************)
RECURSIVE Zeros(_)
Zeros(z) == IF z = 0 THEN "" ELSE "0" \o Zeros(z - 1)

Numerals ==
    {[text |-> Zeros(z) \o ToString(n), value |-> n] : n \in 0..MaxCode, z \in 0..MaxZeros}

\* The sets of integers a token denotes: {n} for a numeral of n, a..b for
\* "<numeral of a>..<numeral of b>"; none for any other token.
Denotations(token) ==
    {{m.value} : m \in {x \in Numerals : x.text = token}}
    \cup UNION {{a.value..b.value : b \in {y \in Numerals : token = a.text \o ".." \o y.text}} :
                  a \in {x \in Numerals :
                            /\ Len(token) >= Len(x.text) + 2
                            /\ SubSeq(token, 1, Len(x.text) + 2) = x.text \o ".."}}

\* Resolution is complete: every token went through the loop of lines 34-52.
Resolved == pc = "init" /\ idx > Len(args.error_codes)

AllDenoted == \A k \in 1..Len(args.error_codes) : Denotations(args.error_codes[k]) # {}

(***************************************************************************)
(* C7: for a list of valid tokens the resolved codes are exactly the union *)
(* of the tokens' values: a..b (nothing when a > b) for "a..b", n for "n", *)
(* and a code contributed by several tokens occurs once.                   *)
(***************************************************************************)
C7_ResolutionIsUnion ==
    (Resolved /\ AllDenoted) =>
        /\ Range(error_codes) =
              UNION {UNION Denotations(args.error_codes[k]) : k \in 1..Len(args.error_codes)}
        /\ \A i, j \in 1..Len(error_codes) : i # j => error_codes[i] # error_codes[j]

\* A range and a single code it already holds, resolved.
C7_Witness ==
    /\ Resolved
    /\ args.error_codes = <<"0..1", "1">>
    /\ error_codes = <<0, 1>>

(***************************************************************************)
(* The valid tokens among those InitArgs draws, stated by construction: a  *)
(* run of digits, or two of them around one "..", up to the length of the  *)
(* longest token drawn.                                                    *)
(***************************************************************************)
MaxTokenLen == IF MaxArgChars > MaxLongToken THEN MaxArgChars ELSE MaxLongToken

\* Runs of k digits, of the digits the tokens are drawn from.
DigitStrings(k) == StrsOfLen(Alphabet \ {"."}, k)

ValidTokens ==
    UNION {DigitStrings(k) : k \in 1..MaxTokenLen}
    \cup UNION {{a \o ".." \o b : a \in DigitStrings(ls[1]), b \in DigitStrings(ls[2])} :
                  ls \in {x \in (1..MaxTokenLen) \X (1..MaxTokenLen) :
                             x[1] + x[2] + 2 <= MaxTokenLen}}

BadToken == \E k \in 1..Len(args.error_codes) : args.error_codes[k] \notin ValidTokens

LogOpen == <<"open", LogPath, "r">>

PathChecked == <<"exists", LogPath>>

(***************************************************************************)
(* C8: with an invalid token (more than one "..", an empty boundary, a     *)
(* non-integer) or a missing log the run ends with exit status 2, the log  *)
(* is never opened, nothing is classified and no summary is written; an    *)
(* invalid token ends the run before the path is checked, and the log is   *)
(* opened only after the path was checked.                                 *)
(***************************************************************************)
C8_InvalidInputExitsTwo ==
    /\ (BadToken \/ ~path_exists) =>
          /\ pc \in {"init", "done"}
          /\ pc = "init" => ENABLED Next
          /\ pc = "done" => exit_status = 2
          /\ LogOpen \notin Range(trace)
          /\ SummaryOpen \notin Range(trace)
          /\ broken_files = <<>> /\ broken_urls = <<>>
          /\ github_job_summary = <<>> /\ summary_file = PriorSummary
    /\ BadToken => PathChecked \notin Range(trace)
    /\ \A i \in 1..Len(trace) :
          trace[i] = LogOpen => \E j \in 1..(i - 1) : trace[j] = PathChecked

\* A run ended with status 2 by a token of three numbers and two separators.
C8_Witness ==
    /\ pc = "done"
    /\ exit_status = 2
    /\ args.error_codes = <<"1..1..1">>

====
